---- MODULE Spec2Model ----
(***************************************************************************)
(* A state-machine model of the MyQ client library (package myq):          *)
(* the Session request layer (apiRequest, apiRequestWithRetry), the OAuth  *)
(* login flow (authorize, login, callback, token) and the account/device   *)
(* operations built on them.  One action is one HTTP exchange together     *)
(* with the code that runs until the next exchange; the provider is the    *)
(* environment and answers every request nondeterministically.             *)
(***************************************************************************)
EXTENDS Integers, Sequences, FiniteSets, TLC

\* ---------------------------------------------------------------- bounds
\* Largest account list the provider returns in the model.
MaxAccounts == 3

\* Attempts explored per apiRequestWithRetry call.
MaxAttempts == 3

\* Login invocations on one Session that may overlap.
MaxLogins == 2

\* Requests a Session of the version 4 client sends in the model.
MaxRequests == 2

\* Longest time, in seconds, a Session call of the command-line program takes.
MaxCallTime == 3

\* ------------------------------------------------------ program constants
StatusOK == 200
StatusAccepted == 202
StatusNoContent == 204
StatusFound == 302
StatusUnauthorized == 401
StatusNotFound == 404

\* openOrClose: the overall deadline and the pause between polls, in seconds.
Timeout == 60
PollInterval == 5

\* Status 0 stands for "no response": client.Do returned an error.
NoResponse == 0
ServerError == 500

\* Statuses the API endpoints answer with in the model.
ApiStatuses ==
  {StatusOK, StatusAccepted, StatusNoContent, StatusUnauthorized, StatusNotFound, ServerError}

\* Statuses the identity provider answers with in the model.
FlowStatuses == {StatusOK, StatusFound, ServerError}

StateUnknown == "unknown"
StateOpen == "open"
StateClosed == "closed"
StateStopped == "stopped"
StateOpening == "opening"
StateClosing == "closing"
ActionClose == "close"
ActionOpen == "open"

\* Door states the provider reports; "" is an absent door_state field.
DoorStates == {"", StateOpen, StateClosed}
Serials == {"SN1"}
Actions == {ActionOpen, ActionClose}
AccessTokens == {"", "tok123", "tok456"}
\* Values rand.Read fills pkceChallenge's 32 bytes with.
RandomBytes == {<<"r1">>, <<"r2">>}

\* ------------------------------------------------------------ error values
MkErr(kind, code, msg) == [kind |-> kind, StatusCode |-> code, Message |-> msg]
Nil == MkErr("nil", 0, "")
ErrNotLoggedIn == MkErr("ErrNotLoggedIn", 0, "not logged in")
TransportErr == MkErr("transport", 0, "")
DecodeErr == MkErr("decode", 0, "")
ErrNoLocation == MkErr("ErrNoLocation", 0, "http: no Location header in response")
UnexpectedStatus(code) == MkErr("unexpectedStatus", code, "received unexpected HTTP status code %d")
NoVerificationToken ==
  MkErr("noVerificationToken", 0, "unable to extract verification token from login page")
DeviceNotFound(sn) == MkErr("deviceNotFound", 0, sn)

\* *errorResponse with the status code attached; the message comes from the
\* body when the body decodes and is synthesized otherwise.
StatusCodeUnset(resp) ==
  IF resp.json
  THEN MkErr("errorResponse", 0, "body message")
  ELSE MkErr("errorResponse", resp.status, "received HTTP status code %d")

errorResponse(resp) ==
  MkErr("errorResponse", resp.status,
        IF resp.json THEN "body message" ELSE "received HTTP status code %d")

isStatus(err, code) == err.kind = "errorResponse" /\ err.StatusCode = code

\* --------------------------------------------------------------- apiRequest
\* The outcome of one authenticated request: the error returned and the value
\* left in target (zero is target's value before the call).
apiRequestNoAuthCase(resp, zero) ==
  IF resp.status = NoResponse THEN [err |-> TransportErr, body |-> zero]
  ELSE IF resp.status = StatusOK
       THEN IF resp.json THEN [err |-> Nil, body |-> resp.data]
                         ELSE [err |-> DecodeErr, body |-> zero]
  ELSE IF resp.status \in {StatusNoContent, StatusAccepted}
       THEN [err |-> Nil, body |-> zero]
  ELSE [err |-> errorResponse(resp), body |-> zero]

apiRequest(resp, zero) ==
  IF resp.status = NoResponse THEN [err |-> TransportErr, body |-> zero]
  ELSE IF resp.status = StatusOK
       THEN IF resp.json THEN [err |-> Nil, body |-> resp.data]
                         ELSE [err |-> DecodeErr, body |-> zero]
  ELSE IF resp.status \in {StatusNoContent, StatusAccepted}
       THEN [err |-> Nil, body |-> zero]
  ELSE IF resp.status = StatusUnauthorized
       THEN [err |-> ErrNotLoggedIn, body |-> zero]
  ELSE [err |-> errorResponse(resp), body |-> zero]

\* apiRequest: the bearer of the Authorization header the request is sent
\* with.  The header is set only from a non-empty token, so the request
\* keeps the header it has (none when new, that of the first send when
\* apiRequestWithRetry sends it again) while the token is empty.
Authorization(tok, header) == IF tok # "" THEN tok ELSE header

\* apiRequestWithRetry: re-login after an attempt iff it was the first attempt
\* and it failed with ErrNotLoggedIn.
ReloginAfterAnyAttempt(attempt, err) == err = ErrNotLoggedIn

ReloginOnAnyError(attempt, err) == attempt = "first" /\ err # Nil

ShouldRelogin(attempt, err) == attempt = "first" /\ err = ErrNotLoggedIn

\* apiRequestWithRetry: what the call returns after the second attempt.
RetryReturnsFirst(first, second) == first

RetryResult(first, second) == second

\* --------------------------------------------------------- verificationToken
TokenField == "__RequestVerificationToken"

Attr(k, v) == [Key |-> k, Val |-> v]
Element(data, attr, kids) == [Type |-> "element", Data |-> data, Attr |-> attr, kids |-> kids]
Text(data) == [Type |-> "text", Data |-> data, Attr |-> <<>>, kids |-> <<>>]
Document(kids) == [Type |-> "document", Data |-> "", Attr |-> <<>>, kids |-> kids]

\* The value the attribute loop leaves in a variable: the Val of the last
\* attribute with that key, "" without one.
RECURSIVE AttrVal(_, _, _)
AttrVal(attr, key, i) ==
  IF i = 0 THEN ""
  ELSE IF attr[i].Key = key THEN attr[i].Val ELSE AttrVal(attr, key, i - 1)

RECURSIVE walk(_)
RECURSIVE walkChildren(_, _)
RECURSIVE walkChildrenLast(_, _)
walk(n) ==
  IF /\ n.Type = "element"
     /\ n.Data = "input"
     /\ AttrVal(n.Attr, "name", Len(n.Attr)) = TokenField
     /\ AttrVal(n.Attr, "value", Len(n.Attr)) # ""
  THEN AttrVal(n.Attr, "value", Len(n.Attr))
  ELSE walkChildren(n.kids, 1)

walkChildrenLast(kids, i) ==
  IF i > Len(kids) THEN ""
  ELSE IF walk(kids[Len(kids) + 1 - i]) # "" THEN walk(kids[Len(kids) + 1 - i])
       ELSE walkChildrenLast(kids, i + 1)

walkChildren(kids, i) ==
  IF i > Len(kids) THEN ""
  ELSE IF walk(kids[i]) # "" THEN walk(kids[i]) ELSE walkChildren(kids, i + 1)

verificationToken(doc) == walk(doc)

Input(name, value) == Element("input", <<Attr("type", "hidden"), Attr("name", name), Attr("value", value)>>, <<>>)
Form(kids) == Element("form", <<Attr("method", "post")>>, kids)
Html(kids) == Document(<<Element("html", <<>>, <<Element("body", <<>>, kids)>>)>>)

\* Login pages the identity provider serves in the model.
PageNoField == Html(<<Form(<<Input("Email", "")>>), Text("sign in")>>)
PageEmptyField == Html(<<Form(<<Input(TokenField, "")>>)>>)
PageOneField == Html(<<Form(<<Input("Email", ""), Input(TokenField, "vt1")>>)>>)
PageTwoFields ==
  Html(<<Form(<<Input(TokenField, ""), Element("div", <<>>, <<Input(TokenField, "vt2")>>)>>),
         Input(TokenField, "vt1")>>)
Pages == {PageNoField, PageEmptyField, PageOneField, PageTwoFields}

\* Nodes a login page is assembled from: inputs with and without the token
\* name and value, an input with its attributes in the other order, an
\* element that is not an input, and text.
PageNodes ==
  {Input(TokenField, "vt1"), Input(TokenField, "vt2"), Input(TokenField, ""),
   Input("Email", "e1"),
   Element("input", <<Attr("value", "vt3"), Attr("name", TokenField)>>, <<>>),
   Element("textarea", <<Attr("name", TokenField), Attr("value", "vt4")>>, <<>>),
   Text("sign in")}

\* Every page with one node of PageNodes in a form, one nested deeper in the
\* form after it, and one after the form.
AssembledPages ==
  {Html(<<Form(<<a, Element("div", <<>>, <<b>>)>>), c>>) : a \in PageNodes, b \in PageNodes,
                                                          c \in PageNodes}

\* ------------------------------------------------------------ provider data
\* A URL: where it points and the code and scope of its query string.
URL(loc, code, scope) == [loc |-> loc, code |-> code, scope |-> scope]
NoURL == URL("", "", "")
UrlA == URL("A", "", "")
UrlB == URL("B", "abc", "s1")
UrlC == URL("C", "xyz", "s0")
URLs == {UrlA, UrlB, UrlC}

\* Account lists the provider returns: accounts are named by their IDs.
AccountLists == {[i \in 1..n |-> i] : n \in 0..MaxAccounts}

Item(sn, ds) == [SerialNumber |-> sn, DoorState |-> ds]
ItemLists == {<<>>, <<Item("SN1", StateClosed)>>, <<Item("SN1", StateOpen), Item("SN2", "")>>}

\* The JSON bodies an endpoint answers 200 with, and the zero value of the
\* target they are decoded into.
Payloads(ep) ==
  CASE ep = "accounts" -> AccountLists
    [] ep = "devices" -> ItemLists
    [] ep = "device" -> DoorStates
    [] ep = "action" -> {""}

Zero(ep) == IF ep \in {"accounts", "devices"} THEN <<>> ELSE ""

\* A response to an authenticated request: status (NoResponse for a transport
\* error), whether the body decodes as JSON, and the decoded body.
ApiResponses(ep) ==
  {[status |-> NoResponse, json |-> FALSE, data |-> Zero(ep)]}
    \cup {[status |-> StatusOK, json |-> TRUE, data |-> d] : d \in Payloads(ep)}
    \cup {[status |-> StatusAccepted, json |-> TRUE, data |-> d] : d \in Payloads(ep)}
    \cup {[status |-> s, json |-> FALSE, data |-> Zero(ep)] : s \in ApiStatuses}
    \cup {[status |-> s, json |-> TRUE, data |-> Zero(ep)] : s \in {StatusNotFound, ServerError}}

\* Responses of the four flow endpoints.
FlowResp(status, page, loc, json, tok) ==
  [status |-> status, page |-> page, Location |-> loc, json |-> json, AccessToken |-> tok]
NoPage == Document(<<>>)
FlowFailures ==
  {FlowResp(s, NoPage, NoURL, FALSE, "") : s \in {NoResponse} \cup FlowStatuses}
\* authorize: Location stands for resp.Request.URL, the final URL.
AuthorizeResponses ==
  FlowFailures \cup {FlowResp(StatusOK, p, l, FALSE, "") : p \in Pages, l \in {UrlA}}
LoginResponses ==
  FlowFailures \cup {FlowResp(StatusFound, NoPage, l, FALSE, "") : l \in {UrlC}}
CallbackResponses ==
  FlowFailures \cup {FlowResp(StatusFound, NoPage, l, FALSE, "") : l \in {UrlB}}
TokenResponses ==
  FlowFailures \cup {FlowResp(StatusOK, NoPage, NoURL, TRUE, t) : t \in AccessTokens}

\* -------------------------------------------------------------------- state
VARIABLES
  token,        \* Session.token
  accounts,     \* Session.accounts
  op,           \* the exported method being executed, with its arguments
  pc,           \* where that method is: idle, login, fill, loop, done
  rq,           \* position in apiRequestWithRetry: none, first, relogin, second
  cur,          \* the apiRequestWithRetry call in progress: its endpoint and
                \* account, and the history of its attempts and Logins
  lstep,        \* next step of the Login in progress (1..4), 0 outside Login
  o,            \* the oauth object of the Login in progress
  u,            \* Login's local u
  idx,          \* position of the account loop in Session.accounts
  devices,      \* Devices' local devices
  result,       \* what the last exported method returned
  ret,          \* history: the apiRequestWithRetry call that returned in the
                \* last step, in full
  calls,        \* history: summaries of the apiRequestWithRetry calls the
                \* current method has completed
  flow,         \* history: the flow requests of the last Login, kept until the
                \* next request of the Session
  lret,         \* history: whether that Login has returned, and its error
  acctFetched,  \* history: an accounts request has succeeded on this Session
  cli,          \* the command-line program's openOrClose: its locals, its
                \* position, the clock and the history of its calls
  par,          \* Login invocations running side by side on the Session: the
                \* locals of each, the cookie jars created so far and the
                \* history of the flow requests sent
  v4            \* the version 4 client: the requests its Session has sent and
                \* the last call made, with its arguments and what it returned

session ==
  <<token, accounts, op, pc, rq, cur, lstep, o, u, idx, devices, result, ret, calls, flow,
    lret, acctFetched>>

vars == <<session, cli, par, v4>>

NoOAuth == [challenge |-> <<>>, verifier |-> <<>>, verificationToken |-> ""]
NoResult == [err |-> Nil, state |-> "", devices |-> <<>>]
Result(err, state, devs) == [err |-> err, state |-> state, devices |-> devs]
NoLogin == [done |-> FALSE, err |-> Nil]

\* Encodings and digests are kept symbolic: the unpadded URL-safe base64 text
\* of x and the SHA-256 digest of x are x under a tag, so that different
\* compositions of the two are different values.
base64url(x) == <<"base64url">> \o x
sha256(x) == <<"sha256">> \o x

\* pkceChallenge with b the random bytes drawn.
pkceChallengeOfBytes(b) ==
  [verifier |-> base64url(b), challenge |-> base64url(sha256(b))]

pkceChallenge(b) ==
  [verifier |-> base64url(b), challenge |-> base64url(sha256(base64url(b)))]

newOAuth(b) ==
  [challenge |-> pkceChallenge(b).challenge, verifier |-> pkceChallenge(b).verifier,
   verificationToken |-> ""]

Endpoint(name) ==
  CASE name = "Devices" -> "devices"
    [] name = "DeviceState" -> "device"
    [] name = "SetDoorState" -> "action"

NewCall(ep, acct) ==
  [ep |-> ep, acct |-> acct, sent |-> <<>>, logins |-> 0, lerr |-> Nil, err |-> Nil,
   body |-> Zero(ep)]
NoCall == NewCall("none", 0)

\* What the history keeps of a completed call: the endpoint and account asked,
\* the number of Logins and the error returned (without its message).
Summary(c) ==
  [acct |-> c.acct, ep |-> c.ep, logins |-> c.logins, err |-> [c.err EXCEPT !.Message = ""]]

\* A control state: the values of the variables a returning call decides.
Control(p, r, c, i, devs, res, accts, fetched) ==
  [pc |-> p, rq |-> r, cur |-> c, idx |-> i, devices |-> devs, result |-> res,
   accounts |-> accts, acctFetched |-> fetched]

Finish(res, accts, fetched) == Control("done", "none", NoCall, 0, <<>>, res, accts, fetched)

Goto(k) ==
  /\ pc' = k.pc
  /\ rq' = k.rq
  /\ cur' = k.cur
  /\ idx' = k.idx
  /\ devices' = k.devices
  /\ result' = k.result
  /\ accounts' = k.accounts
  /\ acctFetched' = k.acctFetched

\* What a lookup loop (DeviceState, SetDoorState) does with the error of one
\* account's request.
LookupIgnoresSuccess(err) ==
  IF err = Nil \/ isStatus(err, StatusNotFound) THEN "continue" ELSE "fail"

LookupSkipsEveryStatus(err) ==
  IF err = Nil THEN "found"
  ELSE IF err.kind = "errorResponse" THEN "continue" ELSE "fail"

LookupVerdict(err) ==
  IF err = Nil THEN "found"
  ELSE IF isStatus(err, StatusNotFound) THEN "continue" ELSE "fail"

\* The door state the Session reports for the door_state decoded from an
\* answer ("" when the answer carries none).
doorStateOrUnknown(reported) == IF reported = "" THEN StateUnknown ELSE reported

doorState(reported) == reported

\* The Devices appended for one account's listing.
MakeDevicesFirstItem(acct, items) ==
  [i \in 1..(IF Len(items) > 0 THEN 1 ELSE 0) |->
    [Account |-> acct, SerialNumber |-> items[i].SerialNumber,
     DoorState |-> doorState(items[i].DoorState)]]

MakeDevices(acct, items) ==
  [i \in 1..Len(items) |->
    [Account |-> acct, SerialNumber |-> items[i].SerialNumber,
     DoorState |-> doorState(items[i].DoorState)]]

\* The head of the account loop of method m at position i: the next account's
\* request, or the code after the loop.
LoopFrom(m, i, devs, accts, fetched) ==
  IF i > Len(accts)
  THEN IF m.name = "Devices"
       THEN Finish(Result(Nil, "", devs), accts, fetched)
       ELSE Finish(Result(DeviceNotFound(m.serial), "", <<>>), accts, fetched)
  ELSE Control("loop", "first", NewCall(Endpoint(m.name), accts[i]), i, devs, NoResult,
               accts, fetched)

\* fillAccounts when Session.accounts is empty: the accounts request.
FetchAccounts ==
  Control("fill", "first", NewCall("accounts", 0), 0, <<>>, NoResult, accounts, acctFetched)

CacheNever(accts) == FALSE

CacheHit(accts) == Len(accts) > 0

\* fillAccounts followed by the head of the account loop.
fillAccounts(m) ==
  IF CacheHit(accounts) THEN LoopFrom(m, 1, <<>>, accounts, acctFetched) ELSE FetchAccounts

\* The caller's code after apiRequestWithRetry returned err with body in
\* target.
Returned(err, body) ==
  IF pc = "fill"
  THEN IF err # Nil
       THEN Finish(Result(err, "", <<>>), accounts, acctFetched)
       ELSE LoopFrom(op, 1, <<>>, body, TRUE)
  ELSE IF op.name = "Devices"
  THEN IF err # Nil
       THEN Finish(Result(err, "", <<>>), accounts, acctFetched)
       ELSE LoopFrom(op, idx + 1, devices \o MakeDevices(accounts[idx], body), accounts,
                     acctFetched)
  ELSE IF LookupVerdict(err) = "continue"
       THEN LoopFrom(op, idx + 1, devices, accounts, acctFetched)
       ELSE IF LookupVerdict(err) = "fail"
            THEN Finish(Result(err, "", <<>>), accounts, acctFetched)
            ELSE Finish(Result(Nil, IF op.name = "DeviceState" THEN doorState(body) ELSE "",
                               <<>>),
                        accounts, acctFetched)

\* The current call returns err with body in target: the caller goes on and
\* the history records the call.
Return(c, err, body) ==
  /\ Goto(Returned(err, body))
  /\ ret' = [c EXCEPT !.err = err, !.body = body]
  /\ calls' = Append(calls, Summary([c EXCEPT !.err = err]))

\* ----------------------------------------------------- openOrClose (values)
\* openOrClose before it is called.  now is the clock; set and polls count
\* the SetDoorState and DeviceState calls made; t0 is when SetDoorState
\* returned, issued and back are when the last poll was called and returned,
\* pollErr is the error of the last poll.
NotRunning ==
  [pc |-> "idle", action |-> "", desiredState |-> "", currentState |-> "", now |-> 0,
   deadline |-> 0, err |-> Nil, set |-> 0, polls |-> 0, t0 |-> 0, issued |-> 0, back |-> 0,
   pollErr |-> Nil]

TimedOut(desired) == MkErr("timedOut", 0, desired)

\* What a Session call of openOrClose can return: the time it takes, and an
\* error or, for DeviceState, a door state.
CallTimes == 0..MaxCallTime
CallErrors == {TransportErr, ErrNotLoggedIn, DeviceNotFound("SN1")}
PolledStates == {"", StateOpen, StateClosed, StateStopped}

desiredStateOf(action) ==
  IF action = ActionOpen THEN StateOpen
  ELSE IF action = ActionClose THEN StateClosed
  ELSE ""

\* The loop condition, time.Now().Before(deadline).
Before(now, deadline) == now < deadline

\* What openOrClose returns after the loop.
AfterLoopSucceeds(current, desired) == Nil

AfterLoop(current, desired) == IF current # desired THEN TimedOut(desired) ELSE Nil

\* ------------------------------------------------ overlapping Logins (values)
\* The locals of a Login invocation: the step it is at (0 not called, 1..4
\* the next flow request, 5 returned) and its oauth object.
NotStarted == [step |-> 0, jar |-> 0, draw |-> 0, challenge |-> <<>>, verifier |-> <<>>]
NoLogins == [jars |-> 0, draws |-> 0, inv |-> [p \in 1..MaxLogins |-> NotStarted], reqs |-> {}]

\* cookiejar.New: a jar no earlier call returned, named by its number.
sharedJar(created) == 1

newJar(created) == created + 1

\* rand.Read in pkceChallenge: a draw of the random source, named by its
\* number; the bytes of two draws may be equal.
newDraw(drawn) == drawn + 1

\* Session.token after an unsynchronized write that overlapped another one.
Torn == "torn"

\* ------------------------------------------------- version 4 client (values)
V4States ==
  {StateUnknown, StateOpen, StateClosed, StateStopped, StateOpening, StateClosing}

\* stateString: the name of the door state the provider numbers st.
stateStringNoClosing(st) ==
  CASE st \in {1, 9} -> StateOpen
    [] st = 2 -> StateClosed
    [] st = 3 -> StateStopped
    [] st = 4 -> StateOpening
    [] OTHER -> StateUnknown

stateString(st) ==
  CASE st \in {1, 9} -> StateOpen
    [] st = 2 -> StateClosed
    [] st = 3 -> StateStopped
    [] st = 4 -> StateOpening
    [] st = 5 -> StateClosing
    [] OTHER -> StateUnknown

\* stateInt: the provider's number of the door state named st, 0 without one.
stateInt(st) ==
  CASE st = StateOpen -> 1
    [] st = StateClosed -> 2
    [] st = StateStopped -> 3
    [] st = StateOpening -> 4
    [] st = StateClosing -> 5
    [] OTHER -> 0

\* Texts are sequences of characters.
DigitChars == <<"0", "1", "2", "3", "4", "5", "6", "7", "8", "9">>
IsDigit(c) == \E i \in DOMAIN DigitChars : DigitChars[i] = c
DigitValue(c) == (CHOOSE i \in DOMAIN DigitChars : DigitChars[i] = c) - 1

RECURSIVE Decimal(_)
Decimal(digits) ==
  IF digits = <<>> THEN 0
  ELSE 10 * Decimal(SubSeq(digits, 1, Len(digits) - 1)) + DigitValue(digits[Len(digits)])

\* strconv.Atoi: an optional sign and at least one decimal digit; 0 and an
\* error for any other text.
Atoi(text) ==
  LET signed == text # <<>> /\ text[1] \in {"+", "-"}
      digits == IF signed THEN Tail(text) ELSE text
  IN IF digits = <<>> \/ \E i \in DOMAIN digits : ~IsDigit(digits[i])
     THEN [n |-> 0, err |-> TRUE]
     ELSE [n |-> IF signed /\ text[1] = "-" THEN 0 - Decimal(digits) ELSE Decimal(digits),
           err |-> FALSE]

\* fmt.Sprint of a state number.
Sprint(st) == <<DigitChars[st + 1]>>

\* AttributeValue texts the provider answers with in the model.
AttrChars == {"0", "1", "5", "9", "-", "a"}
AttributeValues ==
  {<<>>} \cup {<<c>> : c \in AttrChars} \cup {<<c, d>> : c \in AttrChars, d \in AttrChars}

\* Arguments of stateString and of the state parameter in the model.
StateNumbers == (0 - 1)..10
StateTexts == V4States \cup {"", "ajar", "Open"}

InvalidState(state) == MkErr("invalidState", 0, state)
V4StatusErr(code) == MkErr("v4Status", code, "received HTTP status code %d")
ProviderErr(msg) == MkErr("errors.New", 0, msg)

\* Answers to a request of the version 4 client.
V4Answer(status, json, msg, value) ==
  [status |-> status, json |-> json, ErrorMessage |-> msg, AttributeValue |-> value]
NoV4Answer == V4Answer(NoResponse, FALSE, "", <<>>)
V4Failures ==
  {NoV4Answer, V4Answer(ServerError, TRUE, "", <<>>), V4Answer(StatusOK, FALSE, "", <<>>),
   V4Answer(StatusOK, TRUE, "refused", <<>>)}
V4Answers == V4Failures \cup {V4Answer(StatusOK, TRUE, "", t) : t \in AttributeValues}

\* apiRequest of the version 4 client: any status but 200 is an error.
v4apiRequest(resp) ==
  IF resp.status = NoResponse THEN TransportErr
  ELSE IF resp.status # StatusOK THEN V4StatusErr(resp.status)
  ELSE IF ~resp.json THEN DecodeErr
  ELSE Nil

\* The last call of the version 4 client: the function, its arguments (a
\* number or a state name), the answer it got, and the state name, the
\* number and the error it returned.
V4Call(fn, n, state, resp, name, num, err) ==
  [fn |-> fn, n |-> n, state |-> state, resp |-> resp, name |-> name, num |-> num,
   err |-> err]
NoV4 == [sent |-> <<>>, call |-> V4Call("none", 0, "", NoV4Answer, "", 0, Nil)]

\* SetDeviceState's test of stateInt's result.
anyState(st) == TRUE

validState(st) == st # 0

Init ==
  /\ token = ""
  /\ accounts = <<>>
  /\ op = [name |-> "none", serial |-> "", action |-> ""]
  /\ pc = "idle"
  /\ rq = "none"
  /\ cur = NoCall
  /\ lstep = 0
  /\ o = NoOAuth
  /\ u = NoURL
  /\ idx = 0
  /\ devices = <<>>
  /\ result = NoResult
  /\ ret = NoCall
  /\ calls = <<>>
  /\ flow = <<>>
  /\ lret = NoLogin
  /\ acctFetched = FALSE
  /\ cli = NotRunning
  /\ par = NoLogins
  /\ v4 = NoV4

Idle == pc \in {"idle", "done"}

Method(name, serial, action) == [name |-> name, serial |-> serial, action |-> action]

\* ------------------------------------------------------- exported methods
\* Login called by the user: newOAuth, then the authorize request is next.
Login ==
  /\ Idle
  /\ \E b \in RandomBytes : o' = newOAuth(b)
  /\ op' = Method("Login", "", "")
  /\ pc' = "login"
  /\ lstep' = 1
  /\ lret' = NoLogin
  /\ u' = NoURL
  /\ flow' = <<>>
  /\ calls' = <<>>
  /\ ret' = NoCall
  /\ result' = NoResult
  /\ UNCHANGED <<token, accounts, rq, cur, idx, devices, acctFetched, cli, par, v4>>

\* A device method up to its first request: fillAccounts' cache test and, on
\* a hit, the head of the account loop.
Call(m) ==
  /\ Idle
  /\ op' = m
  /\ Goto(fillAccounts(m))
  /\ calls' = <<>>
  /\ ret' = NoCall
  /\ flow' = <<>>
  /\ lret' = NoLogin
  /\ UNCHANGED <<token, lstep, o, u, cli, par, v4>>

Devices == Call(Method("Devices", "", ""))

DeviceState == \E sn \in Serials : Call(Method("DeviceState", sn, ""))

SetDoorState == \E sn \in Serials, a \in Actions : Call(Method("SetDoorState", sn, a))

\* ------------------------------------------------------ apiRequestWithRetry
\* One attempt of the current call: apiRequest sends the request, the
\* second attempt being the request of the first sent again, with the
\* Session token as bearer and classifies the answer; then either Login is
\* entered (newOAuth) or the call returns to its caller.
apiRequestWithRetry ==
  /\ rq \in {"first", "second"}
  /\ Len(cur.sent) < MaxAttempts
  /\ \E resp \in ApiResponses(cur.ep) :
       LET r == apiRequest(resp, Zero(cur.ep))
           h == IF rq = "second" THEN cur.sent[1].bearer ELSE ""
           c == [cur EXCEPT !.sent = Append(@, [bearer |-> Authorization(token, h),
                                                resp |-> resp,
                                                err |-> r.err, body |-> r.body])]
       IN IF ShouldRelogin(rq, r.err)
          THEN /\ \E b \in RandomBytes : o' = newOAuth(b)
               /\ rq' = "relogin"
               /\ lstep' = 1
               /\ u' = NoURL
               /\ cur' = [c EXCEPT !.logins = @ + 1]
               /\ ret' = NoCall
               /\ UNCHANGED <<token, accounts, op, pc, idx, devices, result, calls,
                              acctFetched>>
          ELSE /\ Return(c, IF rq = "second" THEN RetryResult(c.sent[1].err, r.err) ELSE r.err,
                         r.body)
               /\ UNCHANGED <<token, op, lstep, o, u>>
  /\ flow' = <<>>
  /\ lret' = NoLogin
  /\ UNCHANGED <<cli, par, v4>>

\* ------------------------------------------------------------------- Login
\* Session.accounts after a Login that succeeded: Login assigns s.token and
\* nothing else.
LoginClearsAccounts(accts) == <<>>

AccountsAfterLogin(accts) == accts

\* Session.token after the token step returned err and the access token new.
StoredTokenAlways(err, new, old) == new

StoredToken(err, new, old) == IF err = Nil THEN new ELSE old

\* apiRequestWithRetry's test of the error of its Login.
LoginErrorDropped(err) == FALSE

LoginFailed(err) == err # Nil

\* Login returns err; on success the token has been stored.  The caller is
\* the user or apiRequestWithRetry.
LoginReturns(err) ==
  /\ lstep' = 0
  /\ lret' = [done |-> TRUE, err |-> err]
  /\ o' = NoOAuth
  /\ u' = NoURL
  /\ IF pc = "login"
     THEN /\ Goto(Finish(Result(err, "", <<>>),
                         IF err = Nil THEN AccountsAfterLogin(accounts) ELSE accounts,
                         acctFetched))
          /\ UNCHANGED <<ret, calls>>
     ELSE IF LoginFailed(err)
          THEN Return([cur EXCEPT !.lerr = err], err, Zero(cur.ep))
          ELSE /\ rq' = "second"
               /\ cur' = [cur EXCEPT !.lerr = err]
               /\ accounts' = IF err = Nil THEN AccountsAfterLogin(accounts) ELSE accounts
               /\ UNCHANGED <<pc, idx, devices, result, acctFetched, ret, calls>>

\* Login goes on to step n.
LoginGoesOn(n) ==
  /\ lstep' = n
  /\ UNCHANGED <<lret, pc, rq, cur, idx, devices, result, accounts, acctFetched, ret, calls>>

FlowStep(step, req, resp) == [step |-> step, req |-> req, resp |-> resp]

\* The form token sends: the code and scope of the query string of u, and
\* the verifier of the oauth object.
tokenParamsSwapped(url, oa) ==
  [code |-> url.scope, scope |-> url.code, code_verifier |-> oa.verifier]

tokenParams(url, oa) == [code |-> url.code, scope |-> url.scope, code_verifier |-> oa.verifier]

authorizeIgnoresToken(resp) ==
  IF resp.status = NoResponse THEN TransportErr
  ELSE IF resp.status # StatusOK THEN UnexpectedStatus(resp.status)
  ELSE Nil

\* The error authorize returns for a response.
authorizeErr(resp) ==
  IF resp.status = NoResponse THEN TransportErr
  ELSE IF resp.status # StatusOK THEN UnexpectedStatus(resp.status)
  ELSE IF verificationToken(resp.page) = "" THEN NoVerificationToken
  ELSE Nil

\* The error login returns for a response.
loginErr(resp) ==
  IF resp.status = NoResponse THEN TransportErr
  ELSE IF resp.status # StatusFound THEN UnexpectedStatus(resp.status)
  ELSE IF resp.Location = NoURL THEN ErrNoLocation
  ELSE Nil

\* The error callback returns for a response.
callbackErr(resp) ==
  IF resp.status = NoResponse THEN TransportErr
  ELSE IF resp.status # StatusFound THEN UnexpectedStatus(resp.status)
  ELSE IF resp.Location = NoURL THEN ErrNoLocation
  ELSE Nil

tokenExpectsFound(resp) ==
  IF resp.status = NoResponse THEN TransportErr
  ELSE IF resp.status # StatusFound THEN UnexpectedStatus(resp.status)
  ELSE IF ~resp.json THEN DecodeErr
  ELSE Nil

tokenAnyStatus(resp) == IF resp.status = NoResponse THEN TransportErr ELSE Nil

\* The error token returns for a response.
tokenErr(resp) ==
  IF resp.status = NoResponse THEN TransportErr
  ELSE IF resp.status # StatusOK THEN UnexpectedStatus(resp.status)
  ELSE IF ~resp.json THEN DecodeErr
  ELSE Nil

\* The authorize step, answered from a set of responses.
Authorize(responses) ==
  /\ lstep = 1
  /\ \E resp \in responses :
       /\ flow' = Append(flow, FlowStep("authorize", [code_challenge |-> o.challenge], resp))
       /\ IF authorizeErr(resp) = Nil
          THEN /\ o' = [o EXCEPT !.verificationToken = verificationToken(resp.page)]
               /\ u' = resp.Location
               /\ LoginGoesOn(2)
          ELSE LoginReturns(authorizeErr(resp))
  /\ UNCHANGED <<token, op, cli, par, v4>>

authorize == Authorize(AuthorizeResponses)

login ==
  /\ lstep = 2
  /\ \E resp \in LoginResponses :
       /\ flow' = Append(flow, FlowStep("login",
                    [url |-> u, verificationToken |-> o.verificationToken], resp))
       /\ IF loginErr(resp) = Nil
          THEN /\ u' = resp.Location
               /\ o' = o
               /\ LoginGoesOn(3)
          ELSE LoginReturns(loginErr(resp))
  /\ UNCHANGED <<token, op, cli, par, v4>>

callback ==
  /\ lstep = 3
  /\ \E resp \in CallbackResponses :
       /\ flow' = Append(flow, FlowStep("callback", [url |-> u], resp))
       /\ IF callbackErr(resp) = Nil
          THEN /\ u' = resp.Location
               /\ o' = o
               /\ LoginGoesOn(4)
          ELSE LoginReturns(callbackErr(resp))
  /\ UNCHANGED <<token, op, cli, par, v4>>

oauthToken ==
  /\ lstep = 4
  /\ \E resp \in TokenResponses :
       /\ flow' = Append(flow, FlowStep("token", tokenParams(u, o), resp))
       /\ token' = StoredToken(tokenErr(resp), resp.AccessToken, token)
       /\ LoginReturns(tokenErr(resp))
  /\ UNCHANGED <<op, cli, par, v4>>

Next ==
  \/ Login
  \/ Devices
  \/ DeviceState
  \/ SetDoorState
  \/ apiRequestWithRetry
  \/ authorize
  \/ login
  \/ callback
  \/ oauthToken

Spec == Init /\ [][Next]_vars

\* --------------------------------------------- verificationToken on its own
\* A Login of a new Session at its authorize step, answered 200 with any of
\* the assembled pages: authorize applies verificationToken to the page.
InitAuthorize ==
  /\ token = ""
  /\ accounts = <<>>
  /\ op = Method("Login", "", "")
  /\ pc = "login"
  /\ rq = "none"
  /\ cur = NoCall
  /\ lstep = 1
  /\ o \in {newOAuth(b) : b \in RandomBytes}
  /\ u = NoURL
  /\ idx = 0
  /\ devices = <<>>
  /\ result = NoResult
  /\ ret = NoCall
  /\ calls = <<>>
  /\ flow = <<>>
  /\ lret = NoLogin
  /\ acctFetched = FALSE
  /\ cli = NotRunning
  /\ par = NoLogins
  /\ v4 = NoV4

AssembledResponses == {FlowResp(StatusOK, p, UrlA, FALSE, "") : p \in AssembledPages}

authorizeAssembled == Authorize(AssembledResponses)

PageSpec == InitAuthorize /\ [][authorizeAssembled]_vars

\* ------------------------------------------------------------- openOrClose
\* The command-line program's openOrClose on its own.  The Session is the
\* environment here: a call of SetDoorState or DeviceState is its duration
\* and the value it returns, and every call returns.
\* openOrClose up to the loop: desiredState, SetDoorState, the deadline.
openOrClose ==
  /\ cli.pc = "idle"
  /\ \E a \in Actions, d \in CallTimes, e \in {Nil} \cup CallErrors :
       LET t == cli.now + d
           c == [cli EXCEPT !.action = a, !.desiredState = desiredStateOf(a), !.set = @ + 1,
                            !.now = t, !.t0 = t]
       IN cli' = IF e # Nil
                 THEN [c EXCEPT !.pc = "done", !.err = e]
                 ELSE [c EXCEPT !.pc = "loop", !.deadline = t + Timeout]
  /\ UNCHANGED <<session, par, v4>>

\* One iteration of the loop: the deadline test, DeviceState, and then the
\* return of its error, the break or the sleep.
pollDeviceState ==
  /\ cli.pc = "loop"
  /\ Before(cli.now, cli.deadline)
  /\ \E d \in CallTimes :
       LET t == cli.now + d
           c == [cli EXCEPT !.polls = @ + 1, !.issued = cli.now, !.back = t, !.now = t]
       IN \/ \E e \in CallErrors :
               cli' = [c EXCEPT !.pc = "done", !.err = e, !.pollErr = e]
          \/ \E state \in PolledStates :
               cli' = IF state = cli.desiredState
                      THEN [c EXCEPT !.currentState = state, !.pc = "done",
                                     !.err = AfterLoop(state, cli.desiredState)]
                      ELSE [c EXCEPT !.currentState = state, !.now = t + PollInterval]
  /\ UNCHANGED <<session, par, v4>>

\* The loop ends because the deadline has passed.
deadlinePassed ==
  /\ cli.pc = "loop"
  /\ ~Before(cli.now, cli.deadline)
  /\ cli' = [cli EXCEPT !.pc = "done", !.err = AfterLoop(cli.currentState, cli.desiredState)]
  /\ UNCHANGED <<session, par, v4>>

CliNext == openOrClose \/ pollDeviceState \/ deadlinePassed

CliSpec == Init /\ [][CliNext]_vars

\* openOrClose is sequential code: it keeps running until it returns.
CliFairSpec == CliSpec /\ WF_vars(CliNext)

\* -------------------------------------------------------- overlapping Logins
\* Login invocations on one Session, their steps interleaved in any order
\* (one after the other included).  An answer is only success or failure
\* here; what the steps make of their answers is Spec's subject.
sessionButToken ==
  <<accounts, op, pc, rq, cur, lstep, o, u, idx, devices, result, ret, calls, flow, lret,
    acctFetched>>

\* Invocation p calls Login: newOAuth creates a jar and draws a pair.
LoginStarts(p) ==
  /\ par.inv[p].step = 0
  /\ \E b \in RandomBytes :
       par' = [par EXCEPT !.jars = @ + 1, !.draws = @ + 1,
                          !.inv[p] = [step |-> 1, jar |-> newJar(par.jars),
                                      draw |-> newDraw(par.draws),
                                      challenge |-> newOAuth(b).challenge,
                                      verifier |-> newOAuth(b).verifier]]
  /\ UNCHANGED <<session, cli, v4>>

\* The flow request invocation p sends at its step: the client's jar is
\* o.jar, and the oauth object is the one its newOAuth returned.
Sent(p) ==
  [by |-> p, step |-> par.inv[p].step, jar |-> par.inv[p].jar, draw |-> par.inv[p].draw,
   challenge |-> par.inv[p].challenge, verifier |-> par.inv[p].verifier]

\* authorize, login or callback of invocation p, and its outcome.
FlowRequest(p) ==
  /\ par.inv[p].step \in 1..3
  /\ \E ok \in BOOLEAN :
       par' = [par EXCEPT !.reqs = @ \cup {Sent(p)},
                          !.inv[p].step = IF ok THEN @ + 1 ELSE 5]
  /\ UNCHANGED <<session, cli, v4>>

\* token of invocation p and, on success, Login's write of Session.token,
\* which no lock orders with the write of an invocation at the same step.
TokenRequest(p) ==
  /\ par.inv[p].step = 4
  /\ par' = [par EXCEPT !.reqs = @ \cup {Sent(p)}, !.inv[p].step = 5]
  /\ \/ UNCHANGED token
     \/ \E t \in AccessTokens : token' = StoredToken(Nil, t, token)
     \/ /\ \E q \in 1..MaxLogins : q # p /\ par.inv[q].step = 4
        /\ token' = Torn
  /\ UNCHANGED <<sessionButToken, cli, v4>>

LoginsNext ==
  \E p \in 1..MaxLogins : LoginStarts(p) \/ FlowRequest(p) \/ TokenRequest(p)

LoginsSpec == Init /\ [][LoginsNext]_vars

\* --------------------------------------------------------- version 4 client
\* stateString and stateInt applied to an argument.
StateStringCall ==
  /\ \E n \in StateNumbers :
       v4' = [v4 EXCEPT !.call = V4Call("stateString", n, "", NoV4Answer, stateString(n), 0, Nil)]
  /\ UNCHANGED <<session, cli, par>>

StateIntCall ==
  /\ \E st \in StateTexts :
       v4' = [v4 EXCEPT !.call = V4Call("stateInt", 0, st, NoV4Answer, "", stateInt(st), Nil)]
  /\ UNCHANGED <<session, cli, par>>

\* What DeviceState returns for the answer to its request.
DeviceStateResult(resp) ==
  IF v4apiRequest(resp) # Nil THEN [name |-> StateUnknown, err |-> v4apiRequest(resp)]
  ELSE IF resp.ErrorMessage # ""
       THEN [name |-> StateUnknown, err |-> ProviderErr(resp.ErrorMessage)]
  ELSE [name |-> stateString(Atoi(resp.AttributeValue).n), err |-> Nil]

\* Session.DeviceState of the version 4 client.
V4DeviceState ==
  /\ Len(v4.sent) < MaxRequests
  /\ \E resp \in V4Answers :
       v4' = [sent |-> Append(v4.sent, [method |-> "GET", AttributeValue |-> <<>>]),
              call |-> V4Call("DeviceState", 0, "", resp, DeviceStateResult(resp).name, 0,
                              DeviceStateResult(resp).err)]
  /\ UNCHANGED <<session, cli, par>>

\* Session.SetDeviceState of the version 4 client.
SetDeviceState ==
  /\ \E state \in StateTexts :
       LET st == stateInt(state)
       IN IF ~validState(st)
          THEN v4' = [v4 EXCEPT !.call = V4Call("SetDeviceState", 0, state, NoV4Answer, "", st,
                                                InvalidState(state))]
          ELSE /\ Len(v4.sent) < MaxRequests
               /\ \E resp \in V4Failures \cup {V4Answer(StatusOK, TRUE, "", <<>>)} :
                    v4' = [sent |-> Append(v4.sent, [method |-> "PUT",
                                                     AttributeValue |-> Sprint(st)]),
                           call |-> V4Call("SetDeviceState", 0, state, resp, "", st,
                                           IF v4apiRequest(resp) # Nil THEN v4apiRequest(resp)
                                           ELSE IF resp.ErrorMessage # ""
                                                THEN ProviderErr(resp.ErrorMessage)
                                           ELSE Nil)]
  /\ UNCHANGED <<session, cli, par>>

V4Next == StateStringCall \/ StateIntCall \/ V4DeviceState \/ SetDeviceState

V4Spec == Init /\ [][V4Next]_vars

\* ================================================================ properties
\* The attempts of the call that just returned.
Statuses(c) == [i \in 1..Len(c.sent) |-> c.sent[i].resp.status]
HasReturned == ret.ep # "none"

\* C1: a call whose first attempt is answered 401 and whose next attempt is
\* answered 200 (with a JSON body that decodes) has invoked Login exactly once,
\* has sent the request exactly twice and returns success.
C1_RetryOnceThenSuccess ==
  (/\ Len(ret.sent) >= 2
   /\ ret.sent[1].resp.status = StatusUnauthorized
   /\ ret.sent[2].resp.status = StatusOK
   /\ ret.sent[2].resp.json)
    => (ret.logins = 1 /\ Len(ret.sent) = 2 /\ ret.err = Nil)

C1_Witness ==
  /\ HasReturned
  /\ Statuses(ret) = <<StatusUnauthorized, StatusOK>>
  /\ ret.sent[2].resp.json
  /\ ret.logins = 1
  /\ ret.err = Nil

\* C2: no call invokes Login more than once or sends its request more than
\* twice, and a call whose every attempt is answered 401 while its Login
\* succeeds invokes Login exactly once, sends exactly twice and returns
\* ErrNotLoggedIn.
C2_AlwaysUnauthorized ==
  /\ cur.logins <= 1 /\ Len(cur.sent) <= 2
  /\ ret.logins <= 1 /\ Len(ret.sent) <= 2
  /\ rq = "second" => (Len(cur.sent) = 1 /\ cur.logins = 1)
  /\ (/\ HasReturned
      /\ ret.lerr = Nil
      /\ \A i \in DOMAIN ret.sent : ret.sent[i].resp.status = StatusUnauthorized)
       => (ret.logins = 1 /\ Len(ret.sent) = 2 /\ ret.err = ErrNotLoggedIn)

C2_Witness ==
  /\ HasReturned
  /\ Statuses(ret) = <<StatusUnauthorized, StatusUnauthorized>>
  /\ ret.logins = 1
  /\ ret.err = ErrNotLoggedIn

\* The outcome a flow step needs for the next step to be issued.
FlowOrder == <<"authorize", "login", "callback", "token">>
StepExpected(f) ==
  CASE f.step = "authorize" ->
         f.resp.status = StatusOK /\ verificationToken(f.resp.page) # ""
    [] f.step \in {"login", "callback"} -> f.resp.status = StatusFound
    [] f.step = "token" -> f.resp.status = StatusOK /\ f.resp.json

\* C3: the flow requests of one Login are authorize, login, callback, token
\* in this order, each at most once; a step is issued only after the step
\* before it returned its expected outcome, and after any other outcome of
\* steps 1 to 3 Login has returned an error and issues nothing further.
C3_FlowOrderAndAbort ==
  /\ Len(flow) <= 4
  /\ \A i \in DOMAIN flow :
       /\ flow[i].step = FlowOrder[i]
       /\ i < Len(flow) => StepExpected(flow[i])
       /\ (i <= 3 /\ ~StepExpected(flow[i]))
            => (i = Len(flow) /\ lstep = 0 /\ lret.done /\ lret.err # Nil)
  /\ lstep # 0 => (Len(flow) = lstep - 1 /\ ~lret.done)

C3_Witness ==
  /\ Len(flow) = 2
  /\ flow[2].resp.status = ServerError
  /\ lret.done
  /\ lret.err = UnexpectedStatus(ServerError)
  /\ lstep = 0

\* The four steps answered as scripted: 200 and a page with the token field,
\* 302 with a Location, 302 with a Location carrying code and scope, 200 and
\* JSON.
ScriptedFlow ==
  /\ Len(flow) = 4
  /\ flow[1].resp.status = StatusOK /\ verificationToken(flow[1].resp.page) # ""
  /\ flow[2].resp.status = StatusFound /\ flow[2].resp.Location # NoURL
  /\ flow[3].resp.status = StatusFound /\ flow[3].resp.Location.code # ""
  /\ flow[3].resp.Location.scope # ""
  /\ flow[4].resp.status = StatusOK /\ flow[4].resp.json

\* C4: a Login whose four steps are answered as scripted returns success and
\* leaves in the Session token exactly the access_token of the fourth answer.
C4_ScriptedLogin ==
  (lret.done /\ ScriptedFlow) => (lret.err = Nil /\ token = flow[4].resp.AccessToken)

C4_Witness ==
  /\ lret.done
  /\ ScriptedFlow
  /\ flow[3].resp.Location = UrlB
  /\ flow[4].resp.AccessToken = "tok123"
  /\ lret.err = Nil
  /\ token = "tok123"

\* C5: the token is empty at first, and every step that changes it is the
\* fourth step of a Login whose four steps all returned their expected
\* outcome, storing the access token of that step's answer.
C5_TokenOnlyFromCompleteFlow ==
  /\ token = ""
  /\ [][token' # token =>
          /\ lstep = 4
          /\ lret'.done /\ lret'.err = Nil
          /\ Len(flow') = 4
          /\ \A i \in 1..4 : flow'[i].step = FlowOrder[i] /\ StepExpected(flow'[i])
          /\ token' = flow'[4].resp.AccessToken]_vars

C5_Witness ==
  /\ token = "tok456"
  /\ lret.done /\ lret.err = Nil
  /\ Len(flow) = 4
  /\ flow[4].resp.AccessToken = "tok456"

\* What apiRequest makes of one answer.
Classified(a, ep) ==
  /\ (a.resp.status = StatusOK /\ a.resp.json) => (a.err = Nil /\ a.body = a.resp.data)
  /\ (a.resp.status = StatusOK /\ ~a.resp.json) => a.err = DecodeErr
  /\ a.resp.status \in {StatusAccepted, StatusNoContent} => (a.err = Nil /\ a.body = Zero(ep))
  /\ a.resp.status = StatusUnauthorized => a.err = ErrNotLoggedIn
  /\ a.err = ErrNotLoggedIn => a.resp.status = StatusUnauthorized

\* C6: every attempt is classified by its status: 200 gives the decoded body,
\* 202 and 204 give success with target untouched, 401 gives ErrNotLoggedIn,
\* and no other answer gives ErrNotLoggedIn.
C6_Classification ==
  /\ \A i \in DOMAIN ret.sent : Classified(ret.sent[i], ret.ep)
  /\ \A i \in DOMAIN cur.sent : Classified(cur.sent[i], cur.ep)

C6_Witness ==
  /\ HasReturned
  /\ Statuses(ret) = <<StatusUnauthorized, StatusAccepted>>
  /\ ret.sent[1].err = ErrNotLoggedIn
  /\ ret.sent[2].resp.data # Zero(ret.ep)
  /\ ret.sent[2].err = Nil
  /\ ret.sent[2].body = Zero(ret.ep)

\* C7: an answer with any other status gives an *errorResponse whose
\* StatusCode is that status, with the body's message when the body decodes
\* and the synthesized one when it does not.
C7_StatusCodeAttached ==
  \A i \in DOMAIN ret.sent :
    LET a == ret.sent[i]
    IN a.resp.status \notin
         {NoResponse, StatusOK, StatusAccepted, StatusNoContent, StatusUnauthorized}
         => /\ a.err.kind = "errorResponse"
            /\ a.err.StatusCode = a.resp.status
            /\ isStatus(a.err, a.resp.status)
            /\ a.err.Message =
                 IF a.resp.json THEN "body message" ELSE "received HTTP status code %d"

C7_Witness ==
  /\ HasReturned
  /\ Len(ret.sent) = 1
  /\ ret.sent[1].resp.status = ServerError
  /\ ret.sent[1].resp.json
  /\ ret.err = MkErr("errorResponse", ServerError, "body message")

\* The per-account requests the current method has completed.
IsLookup(c) == c.ep # "accounts"
Lookups == SelectSeq(calls, IsLookup)
LookupOps == {"DeviceState", "SetDoorState"}
FillFailed == Len(calls) >= 1 /\ calls[1].ep = "accounts" /\ calls[1].err # Nil

\* C8: a lookup by serial number asks the accounts in list order, goes on to
\* the next account only after a 404, and at the first account that answers
\* success it stops and returns that account's result.
C8_LookupStopsAtFirstSuccess ==
  op.name \in LookupOps =>
    \A i \in DOMAIN Lookups :
      /\ i <= Len(accounts)
      /\ Lookups[i].acct = accounts[i]
      /\ i < Len(Lookups) => isStatus(Lookups[i].err, StatusNotFound)
      /\ Lookups[i].err = Nil =>
           /\ i = Len(Lookups)
           /\ pc = "done"
           /\ result.err = Nil
           /\ ret.acct = accounts[i]
           /\ op.name = "DeviceState" => result.state = ret.body

C8_Witness ==
  /\ pc = "done"
  /\ op.name = "DeviceState"
  /\ Len(accounts) = 3
  /\ Len(Lookups) = 2
  /\ isStatus(Lookups[1].err, StatusNotFound)
  /\ Lookups[2].err = Nil
  /\ ret.acct = accounts[2]
  /\ result = Result(Nil, StateOpen, <<>>)

\* C9: a lookup whose account list was obtained returns 'device not found'
\* exactly when every account of the list answered 404 (an empty list
\* included); any other error of an account ends the lookup at that account
\* and is returned as it is.
C9_NotFoundIffAll404 ==
  (pc = "done" /\ op.name \in LookupOps) =>
    /\ result.err = DeviceNotFound(op.serial)
         <=> /\ ~FillFailed
             /\ Len(Lookups) = Len(accounts)
             /\ \A i \in DOMAIN Lookups : isStatus(Lookups[i].err, StatusNotFound)
    /\ \A i \in DOMAIN Lookups :
         (Lookups[i].err # Nil /\ ~isStatus(Lookups[i].err, StatusNotFound))
           => (i = Len(Lookups) /\ result.err = ret.err /\ result.err.kind # "deviceNotFound")

C9_Witness ==
  /\ pc = "done"
  /\ op.name = "SetDoorState"
  /\ Len(accounts) = 2
  /\ Len(Lookups) = 2
  /\ \A i \in DOMAIN Lookups : isStatus(Lookups[i].err, StatusNotFound)
  /\ result.err = DeviceNotFound(op.serial)

\* A step that sends the accounts request: an attempt of fillAccounts' call,
\* after which the call has either entered Login or returned.
AccountsRequest == pc = "fill" /\ rq \in {"first", "second"} /\ (rq' # rq \/ pc' # pc)

\* C10 as stated: once an accounts request has succeeded, no step sends the
\* accounts request again.
C10_NeverRefetched == [][acctFetched => ~AccountsRequest]_vars

\* C10: once the Session holds a non-empty account list, no step sends the
\* accounts request and no step, of a Login included, changes the list.
C10_NonEmptyListCached ==
  [][Len(accounts) > 0 => (~AccountsRequest /\ accounts' = accounts)]_vars

C10_Witness ==
  /\ pc = "done"
  /\ op.name = "DeviceState"
  /\ acctFetched
  /\ Len(accounts) > 0
  /\ Len(calls) = 2
  /\ \A i \in DOMAIN calls : calls[i].ep = "device"
  /\ calls[1].logins = 1

\* C11 as stated: whenever a Login has returned success, the cached account
\* list is empty.
C11_LoginClearsAccounts == (lret.done /\ lret.err = Nil) => accounts = <<>>

\* C11: a step that completes a Login with success stores the access token of
\* the token answer in Session.token and leaves the cached account list as it
\* was.
C11_LoginKeepsAccounts ==
  [][(lstep = 4 /\ lret'.done /\ lret'.err = Nil)
       => (token' = flow'[4].resp.AccessToken /\ accounts' = accounts)]_vars

C11_Witness ==
  /\ op.name = "Login"
  /\ lret.done /\ lret.err = Nil
  /\ token = "tok123"
  /\ Len(accounts) = 2

DeviceOps == {"Devices", "DeviceState", "SetDoorState"}

\* The method made one apiRequestWithRetry call, and that call's first attempt
\* carried no bearer: Session.token was empty when the method was invoked.
InvokedWithoutToken == Len(calls) = 1 /\ HasReturned /\ ret.sent[1].bearer = ""

\* C12 as stated: a device operation invoked while Session.token is empty
\* returns ErrNotLoggedIn.
C12_EmptyTokenNotLoggedIn ==
  (pc = "done" /\ op.name \in DeviceOps /\ InvokedWithoutToken)
    => result.err = ErrNotLoggedIn

\* What the provider sent in the last answer of call c: the decoded JSON of a
\* 200, and none when the answer has no body to decode.
Answered(c, none) ==
  LET a == c.sent[Len(c.sent)]
  IN IF a.resp.status = StatusOK /\ a.resp.json THEN a.resp.data ELSE none

Succeeded(name) == pc = "done" /\ op.name = name /\ result.err = Nil
OrUnknown(ds) == IF ds = "" THEN StateUnknown ELSE ds

\* A step in which a listing of Devices returns success, and Devices' list
\* after that step: the one returned if the listing was the last.
ListingReturns ==
  /\ op.name = "Devices" /\ pc = "loop"
  /\ Len(calls') = Len(calls) + 1
  /\ ret'.err = Nil
DevicesAfter == IF pc' = "done" THEN result'.devices ELSE devices'

FirstFailedOtherwise(c) == Len(c.sent) >= 1 /\ c.sent[1].err \notin {Nil, ErrNotLoggedIn}

\* C14: a call whose first attempt fails with anything other than
\* ErrNotLoggedIn returns that error unchanged after that one attempt, without
\* a Login; no call with such a first attempt is ever waiting for a Login or
\* for a second attempt.
C14_OtherErrorsNotRetried ==
  /\ FirstFailedOtherwise(ret) =>
       /\ ret.err = ret.sent[1].err
       /\ Len(ret.sent) = 1
       /\ ret.logins = 0 /\ ret.lerr = Nil
       /\ ~lret.done /\ flow = <<>>
  /\ ~FirstFailedOtherwise(cur)

C14_Witness ==
  /\ HasReturned
  /\ ret.sent[1].resp.status = StatusOK
  /\ ret.sent[1].err = DecodeErr
  /\ ret.err = DecodeErr
  /\ Len(ret.sent) = 1
  /\ ret.logins = 0

\* One Device per item of a listing, in the order of the items, each with the
\* account listed.
DevicesOfListing(acct, items) ==
  [k \in 1..Len(items) |->
    [Account |-> acct, SerialNumber |-> items[k].SerialNumber, DoorState |-> items[k].DoorState]]

SomeCallFailed == \E i \in DOMAIN calls : calls[i].err # Nil

\* C15: Devices lists the accounts in list order starting from an empty
\* list; each listing that succeeds appends one Device per item of the
\* provider's answer, in the answer's order and with the listed account,
\* leaving the Devices before them as they are; Devices that ends without a
\* failed request has listed every account and returns the list so built, and
\* Devices in which a request failed returns that error and no device list.
C15_DevicesConcatenation ==
  /\ [](op.name = "Devices" =>
          /\ \A i \in DOMAIN Lookups : Lookups[i].acct = accounts[i]
          /\ (pc = "loop" /\ Lookups = <<>>) => devices = <<>>
          /\ pc = "done" =>
               IF SomeCallFailed
               THEN result.err # Nil /\ result.err = ret.err /\ result.devices = <<>>
               ELSE result.err = Nil /\ Len(Lookups) = Len(accounts))
  /\ [][ListingReturns =>
          /\ ret'.acct = accounts[Len(Lookups) + 1]
          /\ DevicesAfter = devices \o DevicesOfListing(ret'.acct, Answered(ret', <<>>))]_vars

C15_Witness ==
  /\ Succeeded("Devices")
  /\ Len(accounts) = 2
  /\ Len(result.devices) = 3
  /\ result.devices[1].SerialNumber = result.devices[3].SerialNumber
  /\ result.devices[2].Account = accounts[1]
  /\ result.devices[3].Account = accounts[2]

\* The nodes of a tree in pre-order: a node before its children, the children
\* in order.
RECURSIVE PreOrder(_)
RECURSIVE PreOrderOf(_, _)
PreOrder(n) == <<n>> \o PreOrderOf(n.kids, 1)
PreOrderOf(kids, i) ==
  IF i > Len(kids) THEN <<>> ELSE PreOrder(kids[i]) \o PreOrderOf(kids, i + 1)

\* The attribute of node n named key: its last occurrence, "" without one.
AttrNamed(n, key) ==
  LET I == {i \in DOMAIN n.Attr : n.Attr[i].Key = key}
  IN IF I = {} THEN "" ELSE n.Attr[CHOOSE i \in I : \A j \in I : j <= i].Val

IsTokenInput(n) ==
  /\ n.Type = "element" /\ n.Data = "input"
  /\ AttrNamed(n, "name") = TokenField
  /\ AttrNamed(n, "value") # ""

\* The value of the first token input of a page in pre-order, "" without one.
FirstTokenInput(page) ==
  LET nodes == PreOrder(page)
      I == {i \in DOMAIN nodes : IsTokenInput(nodes[i])}
  IN IF I = {} THEN ""
     ELSE AttrNamed(nodes[CHOOSE i \in I : \A j \in I : i <= j], "value")

\* C16: verificationToken of a page is the value of the first input element
\* in pre-order whose name is __RequestVerificationToken and whose value is
\* not empty, inputs with that name and an empty value being passed over, and
\* it is "" exactly when the page has no such input; authorize keeps that
\* value, and fails when it is "".
C16_FirstTokenInPreOrder ==
  Len(flow) = 1 =>
    LET page == flow[1].resp.page
    IN /\ verificationToken(page) = FirstTokenInput(page)
       /\ lstep = 2 => (o.verificationToken = FirstTokenInput(page) /\ FirstTokenInput(page) # "")
       /\ lstep = 0 => (FirstTokenInput(page) = "" /\ lret.err = NoVerificationToken)
       /\ lstep \in {0, 2}

C16_Witness ==
  /\ Len(flow) = 1
  /\ flow[1].resp.page =
       Html(<<Form(<<Input(TokenField, ""),
                     Element("div", <<>>, <<Input(TokenField, "vt2")>>)>>),
              Input(TokenField, "vt1")>>)
  /\ lstep = 2
  /\ o.verificationToken = "vt2"

\* C17: the oauth object of every Login in progress holds a verifier that is
\* the unpadded base64url text of the random bytes drawn and a challenge that
\* is the unpadded base64url text of the SHA-256 digest of that verifier
\* text, and the authorize request carries this challenge.
C17_ChallengeOfVerifierText ==
  /\ lstep # 0 =>
       /\ o.verifier \in {base64url(b) : b \in RandomBytes}
       /\ o.challenge = base64url(sha256(o.verifier))
  /\ (lstep # 0 /\ Len(flow) >= 1) =>
       flow[1].req.code_challenge = base64url(sha256(o.verifier))

C17_Witness ==
  /\ lstep = 2
  /\ o.verifier = <<"base64url", "r1">>
  /\ o.challenge = <<"base64url", "sha256", "base64url", "r1">>
  /\ flow[1].req.code_challenge = o.challenge

\* What holds of openOrClose at every moment.
CliSafe ==
  /\ cli.set <= 1
  /\ cli.pc # "idle" => cli.set = 1
  /\ cli.polls >= 1 =>
       /\ cli.set = 1 /\ cli.t0 <= cli.issued
       /\ cli.deadline = cli.t0 + Timeout
       /\ cli.issued < cli.deadline
  /\ cli.polls <= Timeout \div PollInterval
  /\ cli.pc = "loop" =>
       /\ cli.deadline = cli.t0 + Timeout
       /\ cli.pollErr = Nil
       /\ cli.currentState # cli.desiredState
       /\ cli.polls >= 1 => cli.now = cli.back + PollInterval
  /\ cli.pc = "done" =>
       /\ cli.err = Nil => (cli.polls >= 1 /\ cli.currentState = cli.desiredState)
       /\ cli.pollErr # Nil => cli.err = cli.pollErr
       /\ cli.err = TimedOut(cli.desiredState)
            <=> /\ cli.polls >= 1 /\ cli.pollErr = Nil
                /\ cli.currentState # cli.desiredState
                /\ cli.now >= cli.deadline

\* C18: openOrClose calls SetDoorState once and before any poll; it polls
\* only before the deadline, fixed at Timeout after SetDoorState returned,
\* and starts each further poll PollInterval after the one before returned;
\* it returns success only with the last polled state equal to the desired
\* one, a failing poll's error at that poll, and the timeout error exactly
\* when the deadline has passed with the last polled state not the desired
\* one; and it always returns.
C18_PollUntilDeadline == []CliSafe /\ <>(cli.pc = "done")

C18_Witness ==
  /\ cli.pc = "done"
  /\ cli.desiredState = StateOpen
  /\ cli.currentState = StateClosed
  /\ cli.polls = 12
  /\ cli.now >= cli.deadline
  /\ cli.err = TimedOut(StateOpen)

\* C19: when the Login that apiRequestWithRetry runs after a 401 fails, the
\* call returns the Login's error after its one attempt; no call goes on to a
\* second attempt with a failed Login behind it.
C19_FailedReloginReturned ==
  /\ ret.lerr # Nil =>
       /\ ret.err = ret.lerr
       /\ Len(ret.sent) = 1 /\ ret.sent[1].err = ErrNotLoggedIn
       /\ ret.logins = 1
       /\ lret.done /\ lret.err = ret.lerr
  /\ cur.lerr = Nil
  /\ (lret.done /\ lret.err # Nil /\ op.name # "Login") => (HasReturned /\ ret.lerr = lret.err)

C19_Witness ==
  /\ HasReturned
  /\ Len(flow) = 3
  /\ ret.lerr = UnexpectedStatus(ServerError)
  /\ ret.err = UnexpectedStatus(ServerError)
  /\ Statuses(ret) = <<StatusUnauthorized>>

\* C20: no step of a Login changes Session.token or the cached account list
\* unless it completes the Login with success; a step at which the Login
\* fails leaves both as they were and the oauth object and the URL of the
\* attempt are dropped.
C20_FailedLoginLeavesSession ==
  [][(lstep # 0 /\ ~(lret'.done /\ lret'.err = Nil))
       => /\ token' = token
          /\ accounts' = accounts
          /\ lret'.done => (lret'.err # Nil /\ o' = NoOAuth /\ u' = NoURL)]_vars

C20_Witness ==
  /\ lret.done
  /\ lret.err = DecodeErr
  /\ Len(flow) = 4
  /\ flow[4].resp.status = StatusOK
  /\ token = "tok123"
  /\ Len(accounts) = 2
  /\ o = NoOAuth

\* C21: in the flow of one Login, the login request is posted to the final
\* URL of the authorize answer with the verification token of its page, the
\* callback request goes to the Location of the login answer, and the token
\* request carries the code and scope of the Location of the callback answer
\* and the verifier whose challenge the authorize request carried.
C21_StepsChained ==
  /\ Len(flow) >= 2 =>
       /\ flow[2].req.url = flow[1].resp.Location
       /\ flow[2].req.verificationToken = verificationToken(flow[1].resp.page)
  /\ Len(flow) >= 3 => flow[3].req.url = flow[2].resp.Location
  /\ Len(flow) >= 4 =>
       /\ flow[4].req.code = flow[3].resp.Location.code
       /\ flow[4].req.scope = flow[3].resp.Location.scope
       /\ base64url(sha256(flow[4].req.code_verifier)) = flow[1].req.code_challenge

C21_Witness ==
  /\ Len(flow) = 4
  /\ flow[1].resp.page = PageTwoFields
  /\ flow[2].req = [url |-> UrlA, verificationToken |-> "vt2"]
  /\ flow[3].req.url = UrlC
  /\ flow[4].req = [code |-> "abc", scope |-> "s1", code_verifier |-> <<"base64url", "r2">>]

Started == {p \in 1..MaxLogins : par.inv[p].step # 0}

\* C22: every Login invocation has created one jar and drawn one pair of its
\* own; every flow request is sent with the jar and the pair of the
\* invocation that sends it, the challenge being that of the verifier; no two
\* invocations, one after the other or interleaved, send requests with the
\* same jar or with the verifier of the same draw; and no step of a Login
\* changes any Session state but the token.
C22_OwnJarAndPair ==
  /\ [](/\ par.jars = Cardinality(Started)
        /\ par.draws = Cardinality(Started)
        /\ \A p \in Started, q \in Started : p # q => par.inv[p].jar # par.inv[q].jar
        /\ \A r \in par.reqs :
             /\ r.jar = par.inv[r.by].jar
             /\ r.draw = par.inv[r.by].draw
             /\ r.verifier = par.inv[r.by].verifier
             /\ r.challenge = base64url(sha256(r.verifier))
        /\ \A r \in par.reqs, q \in par.reqs :
             r.by # q.by => (r.jar # q.jar /\ r.draw # q.draw))
  /\ [][UNCHANGED sessionButToken]_vars

C22_Witness ==
  /\ token = "tok456"
  /\ par.inv[1].step = 5
  /\ par.inv[2].step = 4
  /\ \E r \in par.reqs, q \in par.reqs :
       /\ r.by = 1 /\ r.step = 4
       /\ q.by = 2 /\ q.step = 3
       /\ r.verifier = q.verifier
       /\ r.jar = 2 /\ q.jar = 1
       /\ r.draw = 2 /\ q.draw = 1

\* C23 as stated: whenever a Login has returned success, Session.token is not
\* empty; in particular a Login whose token exchange was answered 200 with
\* JSON that carries no access_token has not returned success.
C23_SuccessHoldsToken ==
  /\ (lret.done /\ lret.err = Nil) => token # ""
  /\ (lret.done /\ Len(flow) = 4 /\ flow[4].resp.status = StatusOK
        /\ flow[4].resp.json /\ flow[4].resp.AccessToken = "")
       => lret.err # Nil

\* C24 as stated: the second send of a call that logged in again after a 401
\* carries as bearer the token that Login stored, and not the token of the
\* first send unless Login stored that very token again.
C24_SecondSendCarriesNewToken ==
  (HasReturned /\ Len(ret.sent) = 2) =>
    /\ ret.sent[2].bearer = token
    /\ token # ret.sent[1].bearer => ret.sent[2].bearer # ret.sent[1].bearer

\* C25: stateString returns one of the six state names for every number;
\* DeviceState, answered with an AttributeValue, returns the name of its
\* number with no error, and unknown when the text is not a number; and for
\* every one of the six names, stateString of its stateInt is the name.
C25_StateNamesRoundTrip ==
  /\ v4.call.fn = "stateString" => v4.call.name \in V4States
  /\ (v4.call.fn = "DeviceState" /\ v4.call.resp \notin V4Failures) =>
       /\ v4.call.err = Nil
       /\ v4.call.name \in V4States
       /\ Atoi(v4.call.resp.AttributeValue).err => v4.call.name = StateUnknown
  /\ (v4.call.fn = "stateInt" /\ v4.call.state \in V4States) =>
       stateString(v4.call.num) = v4.call.state

C25_Witness ==
  /\ v4.call.fn = "stateInt"
  /\ v4.call.state = StateClosing
  /\ v4.call.num = 5
  /\ Len(v4.sent) = 2
  /\ v4.sent[1].method = "GET"

\* C26: SetDeviceState called with a state that is not open, closed, stopped,
\* opening or closing returns the 'invalid state' error of that state and
\* sends no request; called with one of the five it sends its request.
C26_InvalidStateBeforeRequest ==
  [][v4'.call.fn = "SetDeviceState" =>
       IF v4'.call.state \in V4States \ {StateUnknown}
       THEN /\ v4'.sent = Append(v4.sent, [method |-> "PUT",
                                           AttributeValue |-> Sprint(v4'.call.num)])
            /\ v4'.call.err # InvalidState(v4'.call.state)
       ELSE /\ v4'.sent = v4.sent
            /\ v4'.call.err = InvalidState(v4'.call.state)]_vars

C26_Witness ==
  /\ v4.call.fn = "SetDeviceState"
  /\ v4.call.state = StateUnknown
  /\ v4.call.err = InvalidState(StateUnknown)
  /\ v4.sent = <<[method |-> "PUT", AttributeValue |-> <<"2">>]>>
====
